---- MODULE Spec2Model ----
(***************************************************************************)
(* ollama-proxy: the reverse proxy built by NewReverseProxy (Director,     *)
(* ModifyResponse, ErrorHandler), the redactor maskSensitive, the          *)
(* pass-through responseLogger and main's loggingMiddleware.               *)
(*                                                                         *)
(* The repository holds three snapshots of internal/proxy/proxy.go:        *)
(*   "proxy_go"  src/internal/proxy/proxy.go  (apiKey, preserveAuth,       *)
(*               verbose)                                                  *)
(*   "part_001"  src/unnamed/part_001  (apiKey, preserveAuth,              *)
(*               versionFallback)                                          *)
(*   "part_002"  src/unnamed/part_002  (apiKey, preserveAuth, verbose,     *)
(*               versionFallback)                                          *)
(* cfg.variant selects the snapshot a proxy instance was built from.       *)
(*                                                                         *)
(* Spec is one request/response flow through the proxy; MaskSpec is        *)
(* maskSensitive called on its own; LoggerSpec is a responseLogger under a *)
(* caller that reads and closes as it likes.                               *)
(*                                                                         *)
(* Strings and byte slices are sequences of one-character strings, so      *)
(* that prefixes, substrings, lengths and concatenation are those of the   *)
(* code.                                                                   *)
(***************************************************************************)
EXTENDS Integers, Sequences, FiniteSets, TLC

VARIABLES
    cfg,          \* the arguments NewReverseProxy was called with
    pc,           \* where the flow is: idle, director, roundtrip, modify, copy, done,
                  \* aborted
    inbound,      \* the request as the client sent it
    out,          \* the request as the Director left it
    resp,         \* the response, as the transport and then ModifyResponse left it
    upBody,       \* the whole body the upstream writes for this response
    upPending,    \* the upstream's writes still to come
    wire,         \* bytes the upstream has written and the proxy has not read
    upEOF,        \* the upstream has finished its body
    rl,           \* the responseLogger's buf and logged
    clientGot,    \* the body bytes delivered to the client so far
    clientStatus, \* the status delivered to the client
    logs,         \* the log records of this flow
    attempts,     \* the round trips the transport was asked for in this flow
    upClosed      \* Close has reached the body the transport returned

vars == <<cfg, pc, inbound, out, resp, upBody, upPending, wire, upEOF, rl, clientGot,
          clientStatus, logs, attempts, upClosed>>

(***************************************************************************)
(* String literals                                                         *)
(***************************************************************************)
S_Bearer == <<"B","e","a","r","e","r"," ">>
S_Redacted == <<"[","R","E","D","A","C","T","E","D","]">>
S_Truncated == <<".",".",".","[","t","r","u","n","c","a","t","e","d","]">>
S_sk == <<"s","k">>
S_ctok == <<"t","o","k">>
S_https == <<"h","t","t","p","s">>
S_http == <<"h","t","t","p">>
S_targetHost == <<"o","l","l","a","m","a",".","c","o","m">>
S_localHost == <<"l","o","c","a","l","h","o","s","t",":","1","1","4","3","4">>
S_remote == <<"1","2","7",".","0",".","0",".","1",":","5">>
S_hop == <<"1","0",".","0",".","0",".","1">>
S_hop2 == <<"1","0",".","0",".","0",".","2">>
S_GET == <<"G","E","T">>
S_POST == <<"P","O","S","T">>
S_apiVersion == <<"/","a","p","i","/","v","e","r","s","i","o","n">>
S_apiTags == <<"/","a","p","i","/","t","a","g","s">>
S_json == <<"a","p","p","l","i","c","a","t","i","o","n","/","j","s","o","n">>
S_text == <<"t","e","x","t","/","p","l","a","i","n">>
S_defaultFallback == <<"0",".","1","5",".","2">>
S_customFallback == <<"9",".","9",".","9">>
S_bad3 == <<"0",".","0",".","0">>
S_bad4 == <<"0",".","0",".","0",".","0">>
S_good == <<"1",".","2",".","3">>
S_version == <<"v","e","r","s","i","o","n">>
S_size == <<"s","i","z","e">>
S_big == <<"9","0","0","7","1","9","9","2","5","4","7","4","0","9","9","3">>
S_BadGateway == <<"B","a","d"," ","G","a","t","e","w","a","y">>

(***************************************************************************)
(* Bounds                                                                  *)
(***************************************************************************)
\* Stands for maxLogBody = 1 << 20: the log cap, scaled so that bodies
\* shorter than, equal to and longer than the cap are all enumerated.
maxLogBody == 24

\* Stands for the 32 KiB buffer the reverse proxy copies the body with.
CopyBufSize == 10

\* The number of pieces a text handed to maskSensitive on its own is made of.
MaxPieces == 3

\* The number of records after which a caller of responseLogger stops
\* reading at end of stream.
MaxRecords == 3

(***************************************************************************)
(* strings package                                                         *)
(***************************************************************************)
Min(a, b) == IF a < b THEN a ELSE b

\* s[i:] with a 0-based index
From(s, i) == SubSeq(s, i + 1, Len(s))

\* s[:i] with a 0-based index
Upto(s, i) == SubSeq(s, 1, i)

HasPrefix(s, p) == Len(s) >= Len(p) /\ SubSeq(s, 1, Len(p)) = p

HasSuffix(s, p) == Len(s) >= Len(p) /\ SubSeq(s, Len(s) - Len(p) + 1, Len(s)) = p

\* strings.Index: 0-based index of the first occurrence of sub, or -1
Index(s, sub) ==
    LET hits == { i \in 0..(Len(s) - Len(sub)) : SubSeq(s, i + 1, i + Len(sub)) = sub }
    IN  IF hits = {} THEN -1 ELSE CHOOSE i \in hits : \A j \in hits : i <= j

Contains(s, sub) == Index(s, sub) >= 0

RECURSIVE Concat(_)
Concat(ss) == IF ss = <<>> THEN <<>> ELSE Head(ss) \o Concat(Tail(ss))

RECURSIVE Join(_, _)
Join(parts, sep) ==
    IF parts = <<>> THEN <<>>
    ELSE IF Len(parts) = 1 THEN parts[1]
    ELSE parts[1] \o sep \o Join(Tail(parts), sep)

RECURSIVE Itoa(_)
Itoa(n) ==
    LET d == <<"0","1","2","3","4","5","6","7","8","9">>
    IN  IF n < 10 THEN <<d[n + 1]>> ELSE Itoa(n \div 10) \o <<d[(n % 10) + 1]>>

(***************************************************************************)
(* Header names and log-format literals                                    *)
(***************************************************************************)
N_Authorization == <<"A","u","t","h","o","r","i","z","a","t","i","o","n">>
N_ContentLength == <<"C","o","n","t","e","n","t","-","L","e","n","g","t","h">>
N_ContentType == <<"C","o","n","t","e","n","t","-","T","y","p","e">>
N_XEcho == <<"X","-","E","c","h","o">>
N_XForwardedFor == <<"X","-","F","o","r","w","a","r","d","e","d","-","F","o","r">>
N_XForwardedHost == <<"X","-","F","o","r","w","a","r","d","e","d","-","H","o","s","t">>
N_XForwardedProto == <<"X","-","F","o","r","w","a","r","d","e","d","-","P","r","o","t","o">>
S_reqPrefix == <<"-",">"," ","r","e","q","u","e","s","t"," ">>
S_headersEq == <<" ","h","e","a","d","e","r","s","=">>
S_bodyEq == <<" ","b","o","d","y","=">>
S_respPrefix == <<"<","-"," ","r","e","s","p","o","n","s","e"," ","s","t","a","t","u","s","=">>
S_upstream == <<"u","p","s","t","r","e","a","m"," ">>
S_arrow == <<" ","-",">"," ">>
S_semiHeaders == <<";"," ","h","e","a","d","e","r","s","=">>
S_semiSnippet == <<";"," ","b","o","d","y","_","s","n","i","p","p","e","t","=">>
S_fixed == <<"f","i","x","e","d"," ","/","a","p","i","/","v","e","r","s","i","o","n"," ","v","a","l","u","e"," ","t","o"," ">>
S_proxyError == <<"p","r","o","x","y"," ","e","r","r","o","r",":"," ">>
S_completed == <<"c","o","m","p","l","e","t","e","d"," ","i","n"," ","1","m","s">>
S_dialErr == <<"d","i","a","l"," ","t","c","p",":"," ","c","o","n","n","e","c","t","i","o","n"," ","r","e","f","u","s","e","d">>
S_timeoutErr == <<"T","L","S"," ","h","a","n","d","s","h","a","k","e"," ","t","i","m","e","o","u","t">>
S_tlsErr == <<"t","l","s",":"," ","b","a","d"," ","c","e","r","t","i","f","i","c","a","t","e">>
S_200 == <<"2","0","0"," ","O","K">>
S_500 == <<"5","0","0"," ","I","n","t","e","r","n","a","l"," ","S","e","r","v","e","r"," ","E","r","r","o","r">>
S_map == <<"m","a","p","[">>

(***************************************************************************)
(* maskSensitive                                                           *)
(***************************************************************************)
\* strings.ReplaceAll for a non-empty old: non-overlapping, left to right
RECURSIVE ReplaceAll(_, _, _)
ReplaceAll(s, old, new) ==
    LET i == Index(s, old)
    IN  IF i < 0 THEN s
        ELSE Upto(s, i) \o new \o ReplaceAll(From(s, i + Len(old)), old, new)

\* strings.Split for a non-empty sep
RECURSIVE Split(_, _)
Split(s, sep) ==
    LET i == Index(s, sep)
    IN  IF i < 0 THEN <<s>>
        ELSE <<Upto(s, i)>> \o Split(From(s, i + Len(sep)), sep)

\* strings.IndexAny: 0-based index of the first character of s in chars, or -1
IndexAny(s, chars) ==
    LET hits == { i \in 0..(Len(s) - 1) : s[i + 1] \in chars }
    IN  IF hits = {} THEN -1 ELSE CHOOSE i \in hits : \A j \in hits : i <= j

Whitespace == {" ", "\t", "\n", "\r"}

\* the token of a part after "Bearer " replaced: up to the first whitespace
SweepPart(part) ==
    IF IndexAny(part, Whitespace) = -1 THEN S_Redacted
    ELSE S_Redacted \o From(part, IndexAny(part, Whitespace))

SweepParts(parts) == [i \in 1..Len(parts) |-> IF i = 1 THEN parts[1] ELSE SweepPart(parts[i])]

\* the generic sweep of "Bearer <token>"
BearerSweep(s) == IF Contains(s, S_Bearer) THEN Join(SweepParts(Split(s, S_Bearer)), S_Bearer) ELSE s

\* the replacement of the configured key
KeyReplace(apiKey, s) ==
    IF apiKey # <<>>
    THEN ReplaceAll(ReplaceAll(s, apiKey, S_Redacted), S_Bearer \o apiKey, S_Bearer \o S_Redacted)
    ELSE s

maskSensitive(apiKey, s) == BearerSweep(KeyReplace(apiKey, s))

(***************************************************************************)
(* http.Header: a map from canonical header names to lists of values       *)
(***************************************************************************)
\* Header names in byte order, the order fmt prints map keys in
HeaderOrder == <<"Authorization", "Content-Length", "Content-Type", "X-Echo",
                 "X-Forwarded-For", "X-Forwarded-Host", "X-Forwarded-Proto">>

HeaderName(k) ==
    CASE k = "Authorization" -> N_Authorization
      [] k = "Content-Length" -> N_ContentLength
      [] k = "Content-Type" -> N_ContentType
      [] k = "X-Echo" -> N_XEcho
      [] k = "X-Forwarded-For" -> N_XForwardedFor
      [] k = "X-Forwarded-Host" -> N_XForwardedHost
      [] k = "X-Forwarded-Proto" -> N_XForwardedProto

EmptyHeader == [k \in {} |-> <<>>]

\* a responseLogger that has captured nothing (and the value of rl when the
\* body is not wrapped)
NoLogger == [buf |-> <<>>, logged |-> FALSE, status |-> <<>>, headers |-> [k \in {} |-> <<>>]]

\* Header.Get: the first value of key k, "" when there is none
HGet(h, k) == IF k \in DOMAIN h /\ Len(h[k]) > 0 THEN h[k][1] ELSE <<>>

\* Header.Set: replaces every value of key k by the single value v
HSet(h, k, v) == [x \in (DOMAIN h) \cup {k} |-> IF x = k THEN <<v>> ELSE h[x]]

\* Header.Del
HDel(h, k) == [x \in (DOMAIN h) \ {k} |-> h[x]]

\* fmt's %v of a map[string][]string: map[K1:[v1 v2] K2:[v]], keys sorted
FmtHeader(h) ==
    LET keys == SelectSeq(HeaderOrder, LAMBDA k : k \in DOMAIN h)
        entry == [i \in 1..Len(keys) |->
                    HeaderName(keys[i]) \o <<":", "[">> \o Join(h[keys[i]], <<" ">>) \o <<"]">>]
    IN  S_map \o Join(entry, <<" ">>) \o <<"]">>

\* url.URL.String for the URLs of the model: [scheme://host]path[?query]
URLString(u) ==
    (IF u.Scheme # <<>> THEN u.Scheme \o <<":", "/", "/">> \o u.Host ELSE <<>>)
    \o u.Path
    \o (IF u.RawQuery # <<>> THEN <<"?">> \o u.RawQuery ELSE <<>>)

(***************************************************************************)
(* Configuration: the arguments of NewReverseProxy                         *)
(***************************************************************************)
Variants == {"proxy_go", "part_001", "part_002"}

\* the snapshots whose NewReverseProxy takes verbose
HasVerbose(v) == v \in {"proxy_go", "part_002"}

\* the snapshots whose NewReverseProxy takes versionFallback
HasVersionFallback(v) == v \in {"part_001", "part_002"}

\* -target's default, https://ollama.com
Target == [Scheme |-> S_https, Host |-> S_targetHost]

Keys == {<<>>, S_sk, S_Bearer \o S_sk}

\* viaMain: the proxy is the one main builds and wraps in loggingMiddleware;
\* main's call has the part_001 signature and never passes an empty fallback.
Configs ==
    { c \in [variant : Variants, apiKey : Keys, preserveAuth : BOOLEAN,
             verbose : BOOLEAN, versionFallback : {<<>>, S_customFallback, S_defaultFallback},
             viaMain : BOOLEAN] :
        /\ (c.verbose => HasVerbose(c.variant))
        /\ (c.versionFallback # <<>> => HasVersionFallback(c.variant))
        /\ (c.versionFallback = S_defaultFallback => c.viaMain)
        /\ (c.viaMain => c.variant = "part_001" /\ c.versionFallback = S_defaultFallback) }

(***************************************************************************)
(* Inbound requests, as net/http's server hands them to the handler        *)
(***************************************************************************)
Fill(n) == [i \in 1..n |-> "x"]

\* the listener is plain HTTP (srv.ListenAndServe)
OriginalScheme == S_http

\* the values of the client's Authorization header lines: none, one empty
\* value, a bearer token, an empty value followed by a bearer token
AuthHeaders == {<<>>, <<<<>>>>, <<S_Bearer \o S_ctok>>, <<<<>>, S_Bearer \o S_ctok>>}

ForwardedFors == {<<>>, <<S_hop>>, <<S_hop, S_hop2>>}

RequestShapes(c) ==
    { [Method |-> S_GET, Path |-> S_apiTags, RawQuery |-> <<>>, Body |-> <<>>],
      [Method |-> S_GET, Path |-> S_apiVersion, RawQuery |-> <<>>, Body |-> <<>>],
      [Method |-> S_GET, Path |-> S_apiTags, RawQuery |-> <<"k", "=">> \o c.apiKey, Body |-> <<>>],
      [Method |-> S_POST, Path |-> S_apiTags, RawQuery |-> <<>>, Body |-> Fill(maxLogBody)],
      [Method |-> S_POST, Path |-> S_apiTags, RawQuery |-> <<>>, Body |-> Fill(maxLogBody + 1)],
      [Method |-> S_POST, Path |-> S_apiTags, RawQuery |-> <<>>,
       Body |-> <<"a">> \o c.apiKey \o <<" ">> \o S_Bearer \o S_ctok] }

\* a header with values vs under key k when vs is non-empty
WithValues(h, k, vs) == IF vs = <<>> THEN h ELSE [x \in (DOMAIN h) \cup {k} |-> IF x = k THEN vs ELSE h[x]]

Requests(c) ==
    { [Method |-> sh.Method,
       URL |-> [Scheme |-> <<>>, Host |-> <<>>, Path |-> sh.Path, RawQuery |-> sh.RawQuery],
       Host |-> S_localHost,
       RemoteAddr |-> S_remote,
       Header |-> WithValues(WithValues(EmptyHeader, "Authorization", au), "X-Forwarded-For", xff),
       Body |-> sh.Body] :
      sh \in RequestShapes(c), au \in AuthHeaders, xff \in ForwardedFors }

(***************************************************************************)
(* Director                                                                *)
(***************************************************************************)
\* orig(r): NewSingleHostReverseProxy's director; the target has no path and
\* no query, so path and query are kept
origDirector(r) == [r EXCEPT !.URL.Scheme = Target.Scheme, !.URL.Host = Target.Host]

\* X-Forwarded-For, X-Forwarded-Proto, X-Forwarded-Host
ForwardedHeaders(r) ==
    LET h1 == IF "X-Forwarded-For" \in DOMAIN r.Header
              THEN HSet(r.Header, "X-Forwarded-For", r.Header["X-Forwarded-For"][1] \o <<",", " ">> \o r.RemoteAddr)
              ELSE HSet(r.Header, "X-Forwarded-For", r.RemoteAddr)
        h2 == HSet(h1, "X-Forwarded-Proto", r.URL.Scheme)
    IN  HSet(h2, "X-Forwarded-Host", r.Host)

\* AuthInject with the client's header always kept, as if preserveAuth were on
AuthInject_KeepsClient(apiKey, preserveAuth, h) ==
    IF apiKey # <<>> /\ ~(HGet(h, "Authorization") # <<>>)
    THEN IF Len(apiKey) >= 7 /\ SubSeq(apiKey, 1, 7) = S_Bearer
         THEN HSet(h, "Authorization", apiKey)
         ELSE HSet(h, "Authorization", S_Bearer \o apiKey)
    ELSE h

\* AuthInject with the key always injected, as if preserveAuth were off
AuthInject_Overrides(apiKey, preserveAuth, h) ==
    IF apiKey # <<>>
    THEN IF Len(apiKey) >= 7 /\ SubSeq(apiKey, 1, 7) = S_Bearer
         THEN HSet(h, "Authorization", apiKey)
         ELSE HSet(h, "Authorization", S_Bearer \o apiKey)
    ELSE h

\* Authorization injection
AuthInject(apiKey, preserveAuth, h) ==
    IF apiKey # <<>> /\ ~(preserveAuth /\ HGet(h, "Authorization") # <<>>)
    THEN IF Len(apiKey) >= 7 /\ SubSeq(apiKey, 1, 7) = S_Bearer
         THEN HSet(h, "Authorization", apiKey)
         ELSE HSet(h, "Authorization", S_Bearer \o apiKey)
    ELSE h

\* the sanitized copy of a header that verbose logging prints
Sanitize(h) == [k \in DOMAIN h |-> IF k = "Authorization" THEN <<S_Bearer \o S_Redacted>> ELSE h[k]]

\* b after io.ReadAll(io.LimitReader(body, maxLogBody+1)) and the cut to
\* maxLogBody: the bytes the verbose capture puts back as the body
CaptureLimit(body) ==
    LET b == Upto(body, Min(Len(body), maxLogBody + 1))
    IN  IF Len(b) > maxLogBody THEN Upto(b, maxLogBody) ELSE b

\* bodyStr of the verbose capture
CaptureLog(apiKey, body) ==
    maskSensitive(apiKey, CaptureLimit(body))
    \o (IF Min(Len(body), maxLogBody + 1) > maxLogBody THEN S_Truncated ELSE <<>>)

\* the request as the Director leaves it. A request without a body reaches
\* the Director with a nil Body.
DirectorRequest(c, r) ==
    LET r1 == [origDirector(r) EXCEPT !.Host = Target.Host]
        r2 == [r1 EXCEPT !.Header = AuthInject(c.apiKey, c.preserveAuth, ForwardedHeaders(r1))]
    IN  IF c.verbose /\ r.Body # <<>> THEN [r2 EXCEPT !.Body = CaptureLimit(r.Body)] ELSE r2

\* the records the Director logs
DirectorLog(c, r) ==
    LET o == DirectorRequest(c, r)
    IN  IF c.verbose
        THEN << S_reqPrefix \o o.Method \o <<" ">> \o URLString(o.URL) \o S_headersEq
                \o FmtHeader(Sanitize(o.Header)) \o S_bodyEq
                \o (IF r.Body # <<>> THEN CaptureLog(c.apiKey, r.Body) ELSE <<>>) >>
        ELSE <<>>

\* loggingMiddleware's line before next.ServeHTTP
AccessLog(r) == r.RemoteAddr \o <<" ">> \o r.Method \o <<" ">> \o URLString(r.URL)

(***************************************************************************)
(* encoding/json, for the documents of the model: an object whose members  *)
(* are strings without escapes or non-negative integers, or null           *)
(***************************************************************************)
Digits == <<"0","1","2","3","4","5","6","7","8","9">>

DigitSet == { Digits[i] : i \in 1..10 }

DigitVal(c) == (CHOOSE i \in 1..10 : Digits[i] = c) - 1

\* characters of object keys in byte order
Letters == <<"a","b","c","d","e","f","g","h","i","j","k","l","m",
             "n","o","p","q","r","s","t","u","v","w","x","y","z">>

\* the place of character c in the byte-ordered alphabet order
Rank(order, c) == CHOOSE i \in 1..Len(order) : order[i] = c

\* byte-wise a < b, for strings over the byte-ordered alphabet order
RECURSIVE LessBy(_, _, _)
LessBy(order, a, b) ==
    IF b = <<>> THEN FALSE
    ELSE IF a = <<>> THEN TRUE
    ELSE IF Head(a) # Head(b) THEN Rank(order, Head(a)) < Rank(order, Head(b))
    ELSE LessBy(order, Tail(a), Tail(b))

\* the length of the longest prefix of s made of characters of set
RECURSIVE Run(_, _)
Run(s, set) == IF s # <<>> /\ Head(s) \in set THEN 1 + Run(Tail(s), set) ELSE 0

S_null == <<"n","u","l","l">>

\* the scanner: tokens [k, v], k one of punct, str, num, null, bad
RECURSIVE Lex(_)
Lex(s) ==
    IF s = <<>> THEN <<>>
    ELSE LET c == Head(s) IN
         IF c \in Whitespace THEN Lex(Tail(s))
         ELSE IF c \in {"{", "}", ":", ","}
              THEN <<[k |-> "punct", v |-> <<c>>]>> \o Lex(Tail(s))
         ELSE IF c = "\""
              THEN LET j == Index(Tail(s), <<"\"">>) IN
                   IF j < 0 \/ Contains(Upto(Tail(s), j), <<"\\">>)
                   THEN <<[k |-> "bad", v |-> <<>>]>>
                   ELSE <<[k |-> "str", v |-> Upto(Tail(s), j)]>> \o Lex(From(Tail(s), j + 1))
         ELSE IF c \in DigitSet
              THEN LET n == Run(s, DigitSet) IN
                   IF n > 1 /\ c = "0"
                   THEN <<[k |-> "bad", v |-> <<>>]>>
                   ELSE <<[k |-> "num", v |-> Upto(s, n)]>> \o Lex(From(s, n))
         ELSE IF HasPrefix(s, S_null)
              THEN <<[k |-> "null", v |-> <<>>]>> \o Lex(From(s, 4))
         ELSE <<[k |-> "bad", v |-> <<>>]>>

\* the members of a JSON object, in document order, with their literal
\* values: [ok, members], members a sequence of [key, val]
\* the token at place i between the braces is of the kind its place asks
MemberShape(t, i) ==
    CASE i % 4 = 1 -> t.k = "str"
      [] i % 4 = 2 -> t = [k |-> "punct", v |-> <<":">>]
      [] i % 4 = 3 -> t.k \in {"str", "num"}
      [] i % 4 = 0 -> t = [k |-> "punct", v |-> <<",">>]

ParseMembers(inner) ==
    IF (Len(inner) = 0 \/ Len(inner) % 4 = 3) /\ \A i \in 1..Len(inner) : MemberShape(inner[i], i)
    THEN [ok |-> TRUE,
          members |-> [j \in 1..((Len(inner) + 1) \div 4) |->
                         [key |-> inner[4 * j - 3].v, val |-> inner[4 * j - 1]]]]
    ELSE [ok |-> FALSE, members |-> <<>>]

ParseTokens(toks) ==
    IF Len(toks) = 1 /\ toks[1].k = "null" THEN [ok |-> TRUE, members |-> <<>>]
    ELSE IF /\ Len(toks) >= 2
            /\ toks[1] = [k |-> "punct", v |-> <<"{">>]
            /\ toks[Len(toks)] = [k |-> "punct", v |-> <<"}">>]
         THEN ParseMembers(SubSeq(toks, 2, Len(toks) - 1))
         ELSE [ok |-> FALSE, members |-> <<>>]

ParseObject(s) == ParseTokens(Lex(s))

\* digits + 1
RECURSIVE Incr(_)
Incr(d) ==
    IF d = <<>> THEN <<"1">>
    ELSE IF d[Len(d)] = "9" THEN Incr(Upto(d, Len(d) - 1)) \o <<"0">>
    ELSE Upto(d, Len(d) - 1) \o <<Digits[DigitVal(d[Len(d)]) + 2]>>

S_2pow53 == <<"9","0","0","7","1","9","9","2","5","4","7","4","0","9","9","2">>

\* The float64 an integer literal decodes to (a number decoded into an
\* interface value is a float64), as the digits json.Marshal prints for it.
\* Integers up to 2^53 are exact; between 2^53 and 2^54 the float64s are the
\* even integers, and an odd literal rounds to the neighbour that is a
\* multiple of 4 (round half to even). Literals from 2^54 on are outside the
\* documents of the model.
RoundHalfEven(d, last2) ==
    CASE last2 % 2 = 0 -> d
      [] last2 % 4 = 1 -> Upto(d, Len(d) - 1) \o <<Digits[DigitVal(d[Len(d)])]>>
      [] last2 % 4 = 3 -> Incr(d)

Float64(d) ==
    CASE Len(d) < 16 -> d
      [] Len(d) = 16 ->
            IF LessBy(Digits, S_2pow53, d)
            THEN RoundHalfEven(d, 10 * DigitVal(d[15]) + DigitVal(d[16]))
            ELSE d

\* json.Unmarshal into a map[string]any: [ok, m], m a function from key to
\* value; a later member replaces an earlier one of the same key, and every
\* number is a float64
Decode(t) == IF t.k = "num" THEN [k |-> "num", v |-> Float64(t.v)] ELSE t

LastOf(members, key) ==
    CHOOSE i \in 1..Len(members) :
        /\ members[i].key = key
        /\ \A j \in 1..Len(members) : members[j].key = key => j <= i

DecodeObject(p) ==
    [ok |-> p.ok,
     m |-> [key \in { p.members[i].key : i \in 1..Len(p.members) } |->
              Decode(p.members[LastOf(p.members, key)].val)]]

Unmarshal(s) == DecodeObject(ParseObject(s))

\* the keys of m in byte order
RECURSIVE SortKeys(_)
SortKeys(ks) ==
    IF ks = {} THEN <<>>
    ELSE LET least == CHOOSE a \in ks : \A b \in ks \ {a} : LessBy(Letters, a, b)
         IN  <<least>> \o SortKeys(ks \ {least})

Quote(x) == <<"\"">> \o x \o <<"\"">>

MarshalValue(t) == IF t.k = "str" THEN Quote(t.v) ELSE t.v

MarshalMembers(m, keys) == [i \in 1..Len(keys) |-> Quote(keys[i]) \o <<":">> \o MarshalValue(m[keys[i]])]

\* json.Marshal of a map[string]any: compact, keys sorted
Marshal(m) == <<"{">> \o Join(MarshalMembers(m, SortKeys(DOMAIN m)), <<",">>) \o <<"}">>

(***************************************************************************)
(* Upstream responses, as http.Transport hands them to ModifyResponse      *)
(***************************************************************************)
\* {"version":"v"}
VersionDoc(v) == <<"{">> \o Quote(S_version) \o <<":">> \o Quote(v) \o <<"}">>

JsonBodies ==
    { VersionDoc(S_bad3),
      VersionDoc(S_bad4),
      VersionDoc(S_good),
      <<"{", " ">> \o Quote(S_version) \o <<" ", ":", " ">> \o Quote(S_bad3) \o <<" ", "}">>,
      <<"{", " ">> \o Quote(S_version) \o <<":">> \o Quote(S_good) \o <<"}">>,
      <<"{">> \o Quote(S_version) \o <<":">> \o Quote(S_bad3) \o <<",">> \o Quote(S_size) \o <<":", "1", "2", "}">>,
      <<"{">> \o Quote(S_size) \o <<":">> \o S_big \o <<",">> \o Quote(S_version) \o <<":">> \o Quote(S_bad3) \o <<"}">>,
      <<"{">> \o Quote(S_version) \o <<":", "0", "}">>,
      <<"{">> \o Quote(S_version) \o <<":">> \o Quote(S_bad3),
      S_null }

\* [code, ct, chunks, echo]: status, content type, the writes the upstream
\* makes (each followed by a flush), and whether the upstream echoes the
\* Authorization value it received in an X-Echo header
ResponseShapes(c) ==
    { [code |-> 200, ct |-> S_text, chunks |-> ch, echo |-> FALSE] :
        ch \in { <<>>, << <<"p", "1", "\n">>, <<"p", "2", "\n">> >>, <<Fill(maxLogBody)>>,
                 <<Fill(maxLogBody + 1)>>, <<Fill(maxLogBody), <<"y", "z">>>>,
                 <<VersionDoc(S_bad3)>> } }
    \cup { [code |-> 200, ct |-> S_json, chunks |-> <<b>>, echo |-> FALSE] : b \in JsonBodies }
    \cup { [code |-> 200, ct |-> S_json, echo |-> FALSE,
            chunks |-> <<Upto(VersionDoc(S_bad3), 5), From(VersionDoc(S_bad3), 5)>>],
           [code |-> 500, ct |-> S_text, echo |-> FALSE,
            chunks |-> << <<"e", " ">> \o c.apiKey \o <<" ">> \o S_Bearer \o S_ctok >>],
           [code |-> 200, ct |-> S_text, echo |-> TRUE, chunks |-> << <<"o", "k">> >>] }

StatusText(code) == IF code = 200 THEN S_200 ELSE S_500

\* The transport's framing: a chunked response has TransferEncoding
\* ["chunked"], ContentLength -1 and no Content-Length header (net/http
\* drops Content-Length and Transfer-Encoding from the header of a chunked
\* response); otherwise the length is declared.
UpstreamResponse(c, sh, chunked, req) ==
    LET h1 == HSet(EmptyHeader, "Content-Type", sh.ct)
        h2 == IF sh.echo THEN HSet(h1, "X-Echo", HGet(req.Header, "Authorization")) ELSE h1
        n == Len(Concat(sh.chunks))
    IN  [Status |-> StatusText(sh.code),
         StatusCode |-> sh.code,
         Header |-> IF chunked THEN h2 ELSE HSet(h2, "Content-Length", Itoa(n)),
         ContentLength |-> IF chunked THEN -1 ELSE n,
         TransferEncoding |-> IF chunked THEN <<"chunked">> ELSE <<>>,
         Request |-> [Method |-> req.Method, URL |-> req.URL],
         Body |-> [buf |-> <<>>, src |-> TRUE, closer |-> TRUE, logger |-> FALSE]]

(***************************************************************************)
(* ModifyResponse                                                          *)
(*                                                                         *)
(* A response body is [buf, src, closer, logger]: the reader yields the    *)
(* bytes of buf, then (src) the bytes of the upstream stream; closer tells *)
(* whether its Close closes the upstream body (io.NopCloser does not);     *)
(* logger tells whether it is wrapped in a responseLogger.  avail is what  *)
(* the upstream has written and the proxy not yet read.                    *)
(***************************************************************************)
isChunked(te) == \E i \in 1..Len(te) : te[i] = "chunked"

\* part_001: no Content-Length on a chunked response
ChunkedFix(rs) ==
    IF isChunked(rs.TransferEncoding)
    THEN [rs EXCEPT !.Header = HDel(@, "Content-Length"), !.ContentLength = -1]
    ELSE rs

\* part_001: the diagnostic capture runs for chunked and error responses
DiagApplies(rs) == isChunked(rs.TransferEncoding) \/ rs.StatusCode >= 400

\* the version patch reads the body of JSON answers to .../api/version
VersionApplies(rs) ==
    /\ HasSuffix(rs.Request.URL.Path, S_apiVersion)
    /\ Contains(HGet(rs.Header, "Content-Type"), S_json)

BytesBody(b) == [buf |-> b, src |-> FALSE, closer |-> FALSE, logger |-> FALSE]

\* the orders a range over the header map may take
Orders(h) ==
    { o \in [1..Cardinality(DOMAIN h) -> DOMAIN h] :
        \A i, j \in 1..Cardinality(DOMAIN h) : i # j => o[i] # o[j] }

\* part_001's diagnostic capture: [resp, rest, logs]
DiagHeaders(h, order) ==
    [i \in 1..Len(order) |-> HeaderName(order[i]) \o <<":", " ">> \o Join(h[order[i]], <<",">>)]

DiagLine(c, rs, b, order) ==
    S_upstream \o rs.Request.Method \o <<" ">> \o URLString(rs.Request.URL)
    \o S_arrow \o Itoa(rs.StatusCode) \o S_semiHeaders
    \o maskSensitive(c.apiKey, Join(DiagHeaders(rs.Header, order), <<";", " ">>))
    \o S_semiSnippet \o maskSensitive(c.apiKey, b)

DiagRestore(c, rs, avail, order, b) ==
    [resp |-> [rs EXCEPT !.Body = [buf |-> b, src |-> TRUE, closer |-> FALSE, logger |-> FALSE]],
     rest |-> From(avail, Len(b)),
     logs |-> <<DiagLine(c, rs, b, order)>>]

DiagCapture(c, rs, avail, order) ==
    DiagRestore(c, rs, avail, order, Upto(avail, Min(Len(avail), maxLogBody)))

\* the version patch on the whole body full; removeTE: the snapshot also
\* removes the chunked marker when it sets Content-Length
Fallback(c) == IF c.versionFallback = <<>> THEN S_defaultFallback ELSE c.versionFallback

\* v, ok := m["version"].(string); ok && (v == "0.0.0" || v == "0.0.0.0")
BadVersion(u) ==
    /\ u.ok
    /\ S_version \in DOMAIN u.m
    /\ u.m[S_version].k = "str"
    /\ u.m[S_version].v \in {S_bad3, S_bad4}

\* the response with the re-serialized body nb
Patched(rs, nb, removeTE) ==
    [rs EXCEPT !.Body = BytesBody(nb),
               !.ContentLength = Len(nb),
               !.Header = IF removeTE
                          THEN HDel(HSet(@, "Content-Length", Itoa(Len(nb))), "Transfer-Encoding")
                          ELSE HSet(@, "Content-Length", Itoa(Len(nb))),
               !.TransferEncoding = IF removeTE THEN <<>> ELSE @]

VersionDecide(c, rs, full, removeTE, u) ==
    IF BadVersion(u)
    THEN [resp |-> Patched(rs, Marshal([u.m EXCEPT ![S_version] = [k |-> "str", v |-> Fallback(c)]]), removeTE),
          logs |-> <<S_fixed \o Fallback(c)>>]
    ELSE [resp |-> [rs EXCEPT !.Body = BytesBody(full)], logs |-> <<>>]

VersionPatch(c, rs, full, removeTE) == VersionDecide(c, rs, full, removeTE, Unmarshal(full))

\* proxy.go
ModifyResponse_proxy_go(c, rs, avail) ==
    IF c.verbose
    THEN [resp |-> [rs EXCEPT !.Body = BytesBody(CaptureLimit(avail))],
          rest |-> From(avail, Min(Len(avail), maxLogBody + 1)),
          logs |-> << S_respPrefix \o rs.Status \o S_headersEq \o FmtHeader(Sanitize(rs.Header))
                      \o S_bodyEq \o CaptureLog(c.apiKey, avail) >>,
          rl |-> NoLogger]
    ELSE [resp |-> rs, rest |-> avail, logs |-> <<>>, rl |-> NoLogger]

\* part_001
\* part_001, third step: the version patch, after the capture result d
Part001Merge(d, v) == [resp |-> v.resp, rest |-> <<>>, logs |-> d.logs \o v.logs, rl |-> NoLogger]

Part001Version(c, d) ==
    IF VersionApplies(d.resp)
    THEN Part001Merge(d, VersionPatch(c, d.resp, d.resp.Body.buf \o d.rest, TRUE))
    ELSE [resp |-> d.resp, rest |-> d.rest, logs |-> d.logs, rl |-> NoLogger]

\* part_001, second step: the diagnostic capture
Part001Diag(c, rs1, avail, order) ==
    Part001Version(c, IF DiagApplies(rs1) THEN DiagCapture(c, rs1, avail, order)
                      ELSE [resp |-> rs1, rest |-> avail, logs |-> <<>>])

ModifyResponse_part_001(c, rs, avail, order) == Part001Diag(c, ChunkedFix(rs), avail, order)

\* part_002
\* part_002, second step: the responseLogger wrap of the response rs2 the
\* version patch left, rest being what is still unread
Part002Wrap(c, rs2, rest, vlogs) ==
    IF c.verbose
    THEN [resp |-> [rs2 EXCEPT !.Body.logger = TRUE],
          rest |-> rest,
          logs |-> vlogs \o <<S_respPrefix \o rs2.Status \o S_headersEq \o FmtHeader(Sanitize(rs2.Header))>>,
          rl |-> [buf |-> <<>>, logged |-> FALSE, status |-> rs2.Status, headers |-> Sanitize(rs2.Header)]]
    ELSE [resp |-> rs2, rest |-> rest, logs |-> vlogs, rl |-> NoLogger]

Part002Version(c, v) == Part002Wrap(c, v.resp, <<>>, v.logs)

ModifyResponse_part_002(c, rs, avail) ==
    IF VersionApplies(rs)
    THEN Part002Version(c, VersionPatch(c, rs, avail, FALSE))
    ELSE Part002Wrap(c, rs, avail, <<>>)

ModifyResponseResult(c, rs, avail, order) ==
    CASE c.variant = "proxy_go" -> ModifyResponse_proxy_go(c, rs, avail)
      [] c.variant = "part_001" -> ModifyResponse_part_001(c, rs, avail, order)
      [] c.variant = "part_002" -> ModifyResponse_part_002(c, rs, avail)

\* ModifyResponse returns once its reads have returned: io.ReadAll of the
\* body at end of stream (eof), io.ReadAll of a LimitReader at end of stream
\* or when the limit is reached
ModifyResponseReady(c, rs, avail, eof) ==
    CASE c.variant = "proxy_go" -> (c.verbose => (eof \/ Len(avail) >= maxLogBody + 1))
      [] c.variant = "part_001" ->
            /\ (DiagApplies(rs) => (eof \/ Len(avail) >= maxLogBody))
            /\ (VersionApplies(rs) => eof)
      [] c.variant = "part_002" -> (VersionApplies(rs) => eof)

\* responseLogger.log
LoggerLog(c, l) ==
    S_respPrefix \o l.status \o S_headersEq \o FmtHeader(l.headers) \o S_bodyEq
    \o maskSensitive(c.apiKey, l.buf)
    \o (IF Len(l.buf) >= maxLogBody THEN S_Truncated ELSE <<>>)

\* LoggerCapture without the limit: every byte read is kept
LoggerCapture_NoLimit(l, p) ==
    IF Len(p) > 0 THEN [l EXCEPT !.buf = @ \o p] ELSE l

\* responseLogger.Read's copy of the n bytes p into the capture buffer
LoggerCapture(l, p) ==
    IF Len(p) > 0 /\ Len(l.buf) < maxLogBody
    THEN [l EXCEPT !.buf = @ \o Upto(p, Min(Len(p), maxLogBody - Len(l.buf)))]
    ELSE l

(***************************************************************************)
(* State machine: one request/response flow                                *)
(***************************************************************************)
NoRequest ==
    [Method |-> <<>>, URL |-> [Scheme |-> <<>>, Host |-> <<>>, Path |-> <<>>, RawQuery |-> <<>>],
     Host |-> <<>>, RemoteAddr |-> <<>>, Header |-> EmptyHeader, Body |-> <<>>]

NoBody == [buf |-> <<>>, src |-> FALSE, closer |-> FALSE, logger |-> FALSE]

NoResponse ==
    [Status |-> <<>>, StatusCode |-> 0, Header |-> EmptyHeader, ContentLength |-> 0,
     TransferEncoding |-> <<>>,
     Request |-> [Method |-> <<>>, URL |-> [Scheme |-> <<>>, Host |-> <<>>, Path |-> <<>>, RawQuery |-> <<>>]],
     Body |-> NoBody]

Init ==
    /\ cfg \in Configs
    /\ pc = "idle"
    /\ inbound = NoRequest
    /\ out = NoRequest
    /\ resp = NoResponse
    /\ upBody = <<>>
    /\ upPending = <<>>
    /\ wire = <<>>
    /\ upEOF = FALSE
    /\ rl = NoLogger
    /\ clientGot = <<>>
    /\ clientStatus = 0
    /\ logs = <<>>
    /\ attempts = 0
    /\ upClosed = FALSE

\* A request arrives; under main, loggingMiddleware logs it first.
ServeHTTP(r) ==
    /\ pc = "idle"
    /\ pc' = "director"
    /\ inbound' = r
    /\ logs' = IF cfg.viaMain THEN <<AccessLog(r)>> ELSE <<>>
    /\ UNCHANGED <<cfg, out, resp, upBody, upPending, wire, upEOF, rl, clientGot, clientStatus,
                   attempts, upClosed>>

Director ==
    /\ pc = "director"
    /\ pc' = "roundtrip"
    /\ out' = DirectorRequest(cfg, inbound)
    /\ logs' = logs \o DirectorLog(cfg, inbound)
    /\ UNCHANGED <<cfg, inbound, resp, upBody, upPending, wire, upEOF, rl, clientGot, clientStatus,
                   attempts, upClosed>>

\* loggingMiddleware's line after next.ServeHTTP has returned
CompletedLog == IF cfg.viaMain THEN <<S_completed>> ELSE <<>>

\* the errors the transport's round trip fails with
TransportErrors == {S_dialErr, S_timeoutErr, S_tlsErr}

\* http.Error(w, msg, code): the body is msg and a newline (fmt.Fprintln)
HttpErrorBody(msg) == msg \o <<"\n">>

\* ErrorAnswer with the error's text put in the body
ErrorAnswer_Leaks(err) ==
    [status |-> 502, body |-> HttpErrorBody(S_BadGateway \o <<":", " ">> \o err), log |-> S_proxyError \o err]

\* what ErrorHandler answers for the error err: [status, body, log]
ErrorAnswer(err) ==
    [status |-> 502, body |-> HttpErrorBody(S_BadGateway), log |-> S_proxyError \o err]

\* The transport's one round trip fails with err; ErrorHandler logs the
\* error and answers 502, and the handler returns.
ErrorHandler(err) ==
    /\ pc = "roundtrip"
    /\ pc' = "done"
    /\ attempts' = attempts + 1
    /\ logs' = logs \o <<ErrorAnswer(err).log>> \o CompletedLog
    /\ clientStatus' = ErrorAnswer(err).status
    /\ clientGot' = ErrorAnswer(err).body
    /\ UNCHANGED <<cfg, inbound, out, resp, upBody, upPending, wire, upEOF, rl, upClosed>>

\* The transport returns the upstream's response header; the body is still
\* to be written. The request has been sent: of it, the response keeps the
\* method and URL (resp.Request).
RoundTrip(sh, chunked) ==
    /\ pc = "roundtrip"
    /\ pc' = "modify"
    /\ resp' = UpstreamResponse(cfg, sh, chunked, out)
    /\ upBody' = Concat(sh.chunks)
    /\ upPending' = sh.chunks
    /\ wire' = <<>>
    /\ upEOF' = FALSE
    /\ inbound' = NoRequest
    /\ out' = NoRequest
    /\ attempts' = attempts + 1
    /\ upClosed' = FALSE
    /\ UNCHANGED <<cfg, rl, clientGot, clientStatus, logs>>

\* The upstream writes its next chunk and flushes.
UpstreamWrite ==
    /\ pc \in {"modify", "copy", "logger", "loggereof"}
    /\ upPending # <<>>
    /\ wire' = wire \o Head(upPending)
    /\ upPending' = Tail(upPending)
    /\ UNCHANGED <<cfg, pc, inbound, out, resp, upBody, upEOF, rl, clientGot, clientStatus, logs,
                   attempts, upClosed>>

\* The upstream's handler returns: end of the body.
UpstreamClose ==
    /\ pc \in {"modify", "copy", "logger", "loggereof"}
    /\ upPending = <<>>
    /\ ~upEOF
    /\ upEOF' = TRUE
    /\ UNCHANGED <<cfg, pc, inbound, out, resp, upBody, upPending, wire, rl, clientGot, clientStatus,
                   logs, attempts, upClosed>>

\* the state ModifyResponse's result res leaves
Modified(res) ==
    /\ resp' = res.resp
    /\ wire' = res.rest
    /\ rl' = res.rl
    /\ logs' = logs \o res.logs
    /\ clientStatus' = res.resp.StatusCode

ModifyResponse(order) ==
    /\ pc = "modify"
    /\ ModifyResponseReady(cfg, resp, wire, upEOF)
    /\ Modified(ModifyResponseResult(cfg, resp, wire, order))
    /\ pc' = "copy"
    /\ UNCHANGED <<cfg, inbound, out, upBody, upPending, upEOF, clientGot, attempts, upClosed>>

\* the state one Read of the bytes p leaves, from buf or from the stream
Copied(fromBuf, p) ==
    /\ clientGot' = clientGot \o p
    /\ resp' = IF fromBuf THEN [resp EXCEPT !.Body.buf = From(@, Len(p))] ELSE resp
    /\ wire' = IF fromBuf THEN wire ELSE From(wire, Len(p))
    /\ rl' = IF resp.Body.logger THEN LoggerCapture(rl, p) ELSE rl

\* The reverse proxy copies the body to the client: one Read that returns
\* bytes, and the write of them.
CopyRead ==
    /\ pc = "copy"
    /\ \/ resp.Body.buf # <<>>
       \/ resp.Body.src /\ wire # <<>>
    /\ Copied(resp.Body.buf # <<>>,
              IF resp.Body.buf # <<>> THEN Upto(resp.Body.buf, Min(Len(resp.Body.buf), CopyBufSize))
              ELSE Upto(wire, Min(Len(wire), CopyBufSize)))
    /\ UNCHANGED <<cfg, pc, inbound, out, upBody, upPending, upEOF, clientStatus, logs, attempts,
                   upClosed>>

\* The Read that returns io.EOF, the Close that follows the copy, and the
\* handler's return.
CopyEOF ==
    /\ pc = "copy"
    /\ resp.Body.buf = <<>>
    /\ resp.Body.src => (wire = <<>> /\ upEOF)
    /\ pc' = "done"
    /\ rl' = IF resp.Body.logger THEN [rl EXCEPT !.logged = TRUE] ELSE rl
    /\ logs' = (IF resp.Body.logger THEN logs \o <<LoggerLog(cfg, rl)>> ELSE logs) \o CompletedLog
    /\ upClosed' = resp.Body.closer
    /\ UNCHANGED <<cfg, inbound, out, resp, upBody, upPending, wire, upEOF, clientGot, clientStatus,
                   attempts>>

\* The client goes away: the write to it fails, the copy stops and the
\* reverse proxy closes the response body and aborts the handler
\* (http.ErrAbortHandler), so loggingMiddleware's last line is not reached.
CopyAbort ==
    /\ pc = "copy"
    /\ pc' = "aborted"
    /\ rl' = IF resp.Body.logger THEN [rl EXCEPT !.logged = TRUE] ELSE rl
    /\ logs' = IF resp.Body.logger /\ ~rl.logged THEN logs \o <<LoggerLog(cfg, rl)>> ELSE logs
    /\ upClosed' = resp.Body.closer
    /\ UNCHANGED <<cfg, inbound, out, resp, upBody, upPending, wire, upEOF, clientGot, clientStatus,
                   attempts>>

\* The handler has returned; the next request starts a fresh flow.
Finish ==
    /\ pc \in {"done", "aborted"}
    /\ pc' = "idle"
    /\ inbound' = NoRequest
    /\ out' = NoRequest
    /\ resp' = NoResponse
    /\ upBody' = <<>>
    /\ upPending' = <<>>
    /\ wire' = <<>>
    /\ upEOF' = FALSE
    /\ rl' = NoLogger
    /\ clientGot' = <<>>
    /\ clientStatus' = 0
    /\ logs' = <<>>
    /\ attempts' = 0
    /\ upClosed' = FALSE
    /\ UNCHANGED cfg

\* the header orders ModifyResponse may range in (only part_001's
\* diagnostic capture ranges over the header map)
HeaderOrders ==
    IF cfg.variant = "part_001" /\ DiagApplies(resp)
    THEN Orders(ChunkedFix(resp).Header)
    ELSE {<<>>}

Next ==
    \/ \E r \in Requests(cfg) : ServeHTTP(r)
    \/ Director
    \/ \E err \in TransportErrors : ErrorHandler(err)
    \/ \E sh \in ResponseShapes(cfg), chunked \in BOOLEAN : RoundTrip(sh, chunked)
    \/ UpstreamWrite
    \/ UpstreamClose
    \/ \E order \in HeaderOrders : ModifyResponse(order)
    \/ CopyRead
    \/ CopyEOF
    \/ CopyAbort
    \/ Finish

Spec == Init /\ [][Next]_vars

(***************************************************************************)
(* maskSensitive on its own: a secret and a text, and the call             *)
(***************************************************************************)
\* the secrets: none, a plain key, a key with the "Bearer " prefix, a key
\* that overlaps itself, and keys that share characters with "[REDACTED]"
MaskSecrets == {<<>>, S_sk, S_Bearer \o S_sk, <<"a", "a">>, <<"D">>, <<"a", "[">>}

\* the pieces texts are made of
MaskPieces == {S_Bearer, S_sk, <<"a">>, <<"[">>, <<"D">>, <<"x">>, <<" ">>, <<"\n">>}

\* the texts of n pieces
RECURSIVE PieceTexts(_)
PieceTexts(n) ==
    IF n = 0 THEN {<<>>}
    ELSE { p \o s : p \in MaskPieces, s \in PieceTexts(n - 1) }

MaskTexts == UNION { PieceTexts(n) : n \in 0..MaxPieces }

\* maskSensitive(apiKey, s) is about to be called with the secret as apiKey
\* and the text as s (held in cfg.apiKey and inbound.Body)
MaskInit ==
    /\ cfg \in { [variant |-> "proxy_go", apiKey |-> k, preserveAuth |-> FALSE, verbose |-> TRUE,
                  versionFallback |-> <<>>, viaMain |-> FALSE] : k \in MaskSecrets }
    /\ pc = "mask"
    /\ inbound \in { [NoRequest EXCEPT !.Body = s] : s \in MaskTexts }
    /\ out = NoRequest
    /\ resp = NoResponse
    /\ upBody = <<>>
    /\ upPending = <<>>
    /\ wire = <<>>
    /\ upEOF = FALSE
    /\ rl = NoLogger
    /\ clientGot = <<>>
    /\ clientStatus = 0
    /\ logs = <<>>
    /\ attempts = 0
    /\ upClosed = FALSE

\* the call returns; its result is the text that is logged
Mask ==
    /\ pc = "mask"
    /\ pc' = "masked"
    /\ logs' = <<maskSensitive(cfg.apiKey, inbound.Body)>>
    /\ UNCHANGED <<cfg, inbound, out, resp, upBody, upPending, wire, upEOF, rl, clientGot,
                   clientStatus, attempts, upClosed>>

MaskSpec == MaskInit /\ [][Mask]_vars

(***************************************************************************)
(* responseLogger on its own: a wrapped stream and a caller that reads     *)
(* and closes as it likes.  pc is logger (no Read has returned io.EOF),    *)
(* loggereof (a Read has) or loggerclosed.                                 *)
(***************************************************************************)
\* the results r.rc.Read(p) may return for a buffer of n bytes: bytes and no
\* error, the last bytes together with io.EOF, or nothing and io.EOF
UnderlyingReads(n, avail, pending, eof) ==
    (IF avail # <<>> THEN {[p |-> Upto(avail, Min(Len(avail), n)), err |-> "nil"]} ELSE {})
    \cup (IF avail # <<>> /\ Len(avail) <= n /\ pending = <<>> /\ eof
          THEN {[p |-> avail, err |-> "EOF"]} ELSE {})
    \cup (IF avail = <<>> /\ pending = <<>> /\ eof THEN {[p |-> <<>>, err |-> "EOF"]} ELSE {})

\* responseLogger.Read, given the result under of r.rc.Read(p): what it
\* returns, the logger it leaves and whether it calls r.log()
LoggerRead(l, under) ==
    [p |-> under.p,
     err |-> under.err,
     l |-> IF under.err = "EOF" THEN [LoggerCapture(l, under.p) EXCEPT !.logged = TRUE]
           ELSE LoggerCapture(l, under.p),
     log |-> under.err = "EOF"]

\* the bodies of the wrapped stream, as the writes that make them
LoggerBodies(c) ==
    { <<>>, << <<"p", "1", "\n">>, <<"p", "2", "\n">> >>, <<Fill(maxLogBody - 1)>>, <<Fill(maxLogBody)>>,
      <<Fill(maxLogBody + 1)>>, <<Fill(maxLogBody), <<"y", "z">>>>,
      << <<"e", " ">> \o c.apiKey \o <<" ">> \o S_Bearer \o S_ctok >> }

\* part_002's ModifyResponse has wrapped the body in a responseLogger
LoggerInit ==
    /\ cfg \in { c \in Configs : c.variant = "part_002" /\ c.verbose /\ c.versionFallback = <<>> }
    /\ pc = "logger"
    /\ inbound = NoRequest
    /\ out = NoRequest
    /\ upPending \in LoggerBodies(cfg)
    /\ upBody = Concat(upPending)
    /\ resp = UpstreamResponse(cfg, [code |-> 200, ct |-> S_text, chunks |-> upPending, echo |-> FALSE],
                               TRUE, NoRequest)
    /\ rl = Part002Wrap(cfg, resp, <<>>, <<>>).rl
    /\ wire = <<>>
    /\ upEOF = FALSE
    /\ clientGot = <<>>
    /\ clientStatus = 200
    /\ logs = <<>>
    /\ attempts = 1
    /\ upClosed = FALSE

\* the state a Read that returned res leaves
LoggerReturned(res) ==
    /\ clientGot' = clientGot \o res.p
    /\ wire' = From(wire, Len(res.p))
    /\ rl' = res.l
    /\ logs' = IF res.log THEN logs \o <<LoggerLog(cfg, res.l)>> ELSE logs
    /\ pc' = IF res.err = "EOF" THEN "loggereof" ELSE pc

\* The caller calls Read with a buffer of n bytes (a short one, or the
\* reverse proxy's).
LoggerReadCall(n) ==
    /\ pc \in {"logger", "loggereof"}
    /\ Len(logs) < MaxRecords
    /\ \E under \in UnderlyingReads(n, wire, upPending, upEOF) : LoggerReturned(LoggerRead(rl, under))
    /\ UNCHANGED <<cfg, inbound, out, resp, upBody, upPending, upEOF, clientStatus, attempts, upClosed>>

\* The caller calls Close.
LoggerCloseCall ==
    /\ pc \in {"logger", "loggereof"}
    /\ pc' = "loggerclosed"
    /\ rl' = [rl EXCEPT !.logged = TRUE]
    /\ logs' = IF ~rl.logged THEN logs \o <<LoggerLog(cfg, rl)>> ELSE logs
    /\ upClosed' = TRUE
    /\ UNCHANGED <<cfg, inbound, out, resp, upBody, upPending, wire, upEOF, clientGot, clientStatus,
                   attempts>>

LoggerNext ==
    \/ UpstreamWrite
    \/ UpstreamClose
    \/ \E n \in {3, CopyBufSize} : LoggerReadCall(n)
    \/ LoggerCloseCall

LoggerSpec == LoggerInit /\ [][LoggerNext]_vars

(***************************************************************************)
(* Properties                                                              *)
(***************************************************************************)
ClientSentAuthorization == "Authorization" \in DOMAIN inbound.Header

\* the Authorization value the spec asks for key K
ExpectedAuthorization(K) == IF HasPrefix(K, S_Bearer) THEN K ELSE S_Bearer \o K

\* C1: with a non-empty key configured, and preserve-auth off or no
\* Authorization header from the client, the outbound Authorization header
\* is exactly "Bearer " + K, or K when K starts with "Bearer ".
C1_AuthorizationInjected ==
    (pc = "roundtrip" /\ cfg.apiKey # <<>> /\ (~cfg.preserveAuth \/ ~ClientSentAuthorization))
        => ("Authorization" \in DOMAIN out.Header
            /\ out.Header["Authorization"] = <<ExpectedAuthorization(cfg.apiKey)>>)

\* C1 witness: the Director has overridden a client's bearer token with a
\* key that carries its own "Bearer " prefix.
C1_Witness ==
    /\ pc = "roundtrip"
    /\ cfg.apiKey = S_Bearer \o S_sk
    /\ ~cfg.preserveAuth
    /\ ClientSentAuthorization
    /\ inbound.Header["Authorization"] = <<S_Bearer \o S_ctok>>
    /\ out.Header["Authorization"] = <<S_Bearer \o S_sk>>

C3_NoKeyInLogs ==
    cfg.apiKey # <<>> => \A i \in 1..Len(logs) : ~Contains(logs[i], cfg.apiKey)

\* the upstream body is a JSON object whose version field is a bad sentinel
\* (read with the exact parser, not with the code's decoding)
UpstreamHasBadVersion ==
    /\ ParseObject(upBody).ok
    /\ \E i \in 1..Len(ParseObject(upBody).members) :
          /\ ParseObject(upBody).members[i].key = S_version
          /\ ParseObject(upBody).members[i].val.k = "str"
          /\ ParseObject(upBody).members[i].val.v \in {S_bad3, S_bad4}

\* the response is a JSON answer to a path ending in /api/version
IsVersionAnswer ==
    /\ HasSuffix(resp.Request.URL.Path, S_apiVersion)
    /\ "Content-Type" \in DOMAIN resp.Header
    /\ Contains(resp.Header["Content-Type"][1], S_json)

\* the flow ended with the upstream's response delivered to the client
Delivered == pc = "done" /\ clientStatus # 502

\* C4: the body delivered to the client equals the upstream body byte for
\* byte, except for a JSON answer to /api/version with a bad version.
C4_BodyUnchanged ==
    (Delivered /\ ~(IsVersionAnswer /\ UpstreamHasBadVersion)) => clientGot = upBody

\* the members of document s other than version, as a set of [key, val]
OtherMembers(s) ==
    { ParseObject(s).members[i] : i \in { j \in 1..Len(ParseObject(s).members) :
                                            ParseObject(s).members[j].key # S_version } }

\* C5: a JSON answer to /api/version with a bad version is delivered as a
\* JSON object whose version is the fallback ("0.15.2" when none is
\* configured), every other field unchanged.
C5_VersionPatched ==
    (Delivered /\ HasVersionFallback(cfg.variant) /\ IsVersionAnswer /\ UpstreamHasBadVersion)
        => /\ ParseObject(clientGot).ok
           /\ \E i \in 1..Len(ParseObject(clientGot).members) :
                 ParseObject(clientGot).members[i] =
                    [key |-> S_version,
                     val |-> [k |-> "str",
                              v |-> IF cfg.versionFallback = <<>> THEN S_defaultFallback
                                    ELSE cfg.versionFallback]]
           /\ OtherMembers(clientGot) = OtherMembers(upBody)

\* C6: after ModifyResponse the response never carries both the chunked
\* marker and a Content-Length header; a response still marked chunked has
\* no Content-Length and length -1.
C6_Framing ==
    (pc \in {"copy", "done"} /\ clientStatus # 502 /\ isChunked(resp.TransferEncoding))
        => ("Content-Length" \notin DOMAIN resp.Header /\ resp.ContentLength = -1)

C8_RequestBodyForwarded == pc = "roundtrip" => out.Body = inbound.Body

\* C9: X-Forwarded-Proto is the scheme of the client's request and
\* X-Forwarded-Host the host the client addressed.
C9_ForwardedProtoHost ==
    pc = "roundtrip"
        => /\ out.Header["X-Forwarded-Proto"] = <<OriginalScheme>>
           /\ out.Header["X-Forwarded-Host"] = <<inbound.Host>>

\* C10: the outbound X-Forwarded-For is the complete prior value followed by
\* ", " and the caller's address, or the caller's address alone.
C10_ForwardedFor ==
    pc = "roundtrip"
        => out.Header["X-Forwarded-For"] =
              << IF "X-Forwarded-For" \in DOMAIN inbound.Header
                 THEN Join(inbound.Header["X-Forwarded-For"], <<",", " ">>) \o <<",", " ">> \o inbound.RemoteAddr
                 ELSE inbound.RemoteAddr >>

\* C11: after a transport failure the client has status 502 and the fixed
\* body "Bad Gateway" (as http.Error writes it, with its newline), the same
\* for every error, with no text of the error in it; the flow has ended and
\* the transport was asked once.
C11_BadGateway ==
    /\ clientStatus = 502
          => /\ pc = "done"
             /\ clientGot = S_BadGateway \o <<"\n">>
             /\ \A e \in TransportErrors : ~Contains(clientGot, e)
             /\ attempts = 1
    /\ attempts <= 1

\* C11 witness: a TLS failure was logged and answered.
C11_Witness ==
    /\ pc = "done"
    /\ clientStatus = 502
    /\ \E i \in 1..Len(logs) : logs[i] = S_proxyError \o S_tlsErr

\* C12: for a non-empty secret, the text maskSensitive returns holds no
\* occurrence of the secret.
C12_NoSecretLeft ==
    (pc = "masked" /\ cfg.apiKey # <<>>) => ~Contains(logs[1], cfg.apiKey)

\* the length of the run of non-whitespace characters s starts with
TokenLen(s) == IF IndexAny(s, Whitespace) = -1 THEN Len(s) ELSE IndexAny(s, Whitespace)

\* the sweep as the claim words it: left to right, each "Bearer " and the
\* run of non-whitespace characters after it become "Bearer [REDACTED]", and
\* the text from the first whitespace after the token on is kept
RECURSIVE RefSweep(_)
RefSweep(s) ==
    IF s = <<>> THEN <<>>
    ELSE IF HasPrefix(s, S_Bearer)
         THEN S_Bearer \o S_Redacted \o RefSweep(From(s, 7 + TokenLen(From(s, 7))))
         ELSE <<Head(s)>> \o RefSweep(Tail(s))

\* C13: for a text that holds no occurrence of the secret (or with no
\* secret), each "Bearer " followed by a run of non-whitespace characters is
\* replaced by "Bearer [REDACTED]", the text from the first whitespace after
\* the token on is kept, and a text without "Bearer " is returned unchanged.
C13_BearerSweep ==
    (pc = "masked" /\ (cfg.apiKey = <<>> \/ ~Contains(inbound.Body, cfg.apiKey)))
        => /\ logs[1] = RefSweep(inbound.Body)
           /\ (~Contains(inbound.Body, S_Bearer) => logs[1] = inbound.Body)

\* the record rec of a body carries the marker exactly when the body is
\* longer than the cap, and a body within the cap is logged in full
BodyRecordOK(rec, body) ==
    /\ HasSuffix(rec, S_Truncated) <=> Len(body) > maxLogBody
    /\ Len(body) <= maxLogBody => HasSuffix(rec, <<"=">> \o maskSensitive(cfg.apiKey, body))

\* the body a response record is about: the body the responseLogger wraps
\* (part_002), the upstream's body (proxy.go, part_001)
RecordedBody == IF cfg.variant = "part_002" THEN clientGot ELSE upBody

\* C14: the logged body of a request or response carries "...[truncated]"
\* exactly when the body is longer than the cap; a body within the cap is
\* logged in full without the marker.
C14_TruncationMarker ==
    /\ (pc = "roundtrip" /\ cfg.verbose) => BodyRecordOK(logs[Len(logs)], inbound.Body)
    /\ Delivered
          => \A i \in 1..Len(logs) :
                (\/ HasPrefix(logs[i], S_respPrefix) /\ Contains(logs[i], S_bodyEq)
                 \/ HasPrefix(logs[i], S_upstream))
                    => BodyRecordOK(logs[i], RecordedBody)

\* C15: the bytes the Reads returned are the bytes the underlying stream
\* gave, in order, io.EOF is returned only at the underlying end of stream,
\* and the capture buffer holds the first min(delivered, limit) bytes
\* delivered, so it is never longer than the limit.
C15_PassThrough ==
    pc \in {"logger", "loggereof", "loggerclosed"}
        => /\ clientGot \o wire \o Concat(upPending) = upBody
           /\ pc = "loggereof" => (wire = <<>> /\ upPending = <<>> /\ upEOF)
           /\ rl.buf = Upto(clientGot, Min(Len(clientGot), maxLogBody))
           /\ Len(rl.buf) <= maxLogBody

\* C15 witness: more than the limit has been delivered and the buffer is
\* full.
C15_Witness ==
    /\ pc \in {"logger", "loggereof"}
    /\ Len(clientGot) > maxLogBody
    /\ Len(rl.buf) = maxLogBody

\* C17: the body record is emitted once, at the first of a Read that returns
\* end of stream and Close: never more than one record, one record once a
\* Read has returned end of stream, and one after Close.
C17_LoggedOnce ==
    pc \in {"logger", "loggereof", "loggerclosed"}
        => /\ Len(logs) <= 1
           /\ pc \in {"loggereof", "loggerclosed"} => Len(logs) = 1
           /\ pc = "logger" => Len(logs) = 0

\* C16: once the body handed to the client has been closed, after the copy
\* or before the stream is exhausted, the body the transport returned has
\* been closed (or had been read to its end, and so released, before).
C16_ClosePropagates ==
    (pc \in {"done", "aborted"} /\ clientStatus # 502)
        => (upClosed \/ (upPending = <<>> /\ wire = <<>> /\ upEOF))

\* C18: a Content-Length the response carries, as header or as field, is the
\* number of body bytes the client is delivered.
C18_LengthConsistent ==
    Delivered
        => /\ "Content-Length" \in DOMAIN resp.Header
                 => resp.Header["Content-Length"] = <<Itoa(Len(clientGot))>>
           /\ resp.ContentLength # -1 => resp.ContentLength = Len(clientGot)

====
